---- MODULE Spec2Model ----
(***************************************************************************)
(* The result cache of the get helper (core/frontend/helpers/get.js):      *)
(* returnCacheAndStartRefetch keeps, per controller name and serialized    *)
(* options, the promise of the last fulfilled fetch and a flag isFetching, *)
(* returns the stored promise to callers and refreshes it in the           *)
(* background.  Fetches are promises returned by controller[action]; they  *)
(* settle later, and their then-callbacks run later still (Bluebird runs   *)
(* callbacks asynchronously), so calls interleave with both.               *)
(* HelperSpec adds the other ways the helper is called and the callbacks   *)
(* it chains on the promise it gets; SsoSpec is the SSO adapter, parser    *)
(* and signIn (core/server/lib/mobiledoc/cards/code.js, lines 168-226).    *)
(***************************************************************************)
EXTENDS Integers, Sequences, FiniteSets, TLC

\* Number of calls to returnCacheAndStartRefetch in one behaviour.
MaxCalls == 3

\* Number of helper invocations in one behaviour of HelperSpec.
MaxHelpers == 2

\* RESOURCES: resource name -> alias, the controller name (two of the four
\* resources; all four are treated alike).
RESOURCES == [posts |-> [alias |-> "postsPublic"], tags |-> [alias |-> "tagsPublic"]]

\* The controller names and the two values `action` takes.
ControllerNames == {RESOURCES[r].alias : r \in DOMAIN RESOURCES}
Actions == {"browse", "read"}

\* Values of the `id` attribute of the helper's hash.
IdValues == {"undefined", "null", "Infinity"}

\* apiOptions objects: the hash of the helper call, here with one attribute.
ApiOptions == [id : IdValues]

\* JSON.stringify(apiOptions): an undefined attribute is left out, and a
\* non-finite number is written as null.
JSONstringify(apiOptions) ==
    CASE apiOptions.id = "undefined" -> "{}"
      [] apiOptions.id = "null"      -> "{\"id\":null}"
      [] apiOptions.id = "Infinity"  -> "{\"id\":null}"

\* JavaScript truthiness of an attribute value.
Truthy(value) == value \notin {"undefined", "null"}

\* isBrowse(options): a request with an id is a read (slug, the other
\* attribute it looks at, is not set by the options modelled here).
isBrowse(options) == ~Truthy(options.id)

\* What a template can pass as `resource`: two known names and an unknown one.
ResourceNames == DOMAIN RESOURCES \cup {"users"}

\* The serialized options that can occur.
OptionStrings == {JSONstringify(o) : o \in ApiOptions}

\* The object literal {} stored under cachedResults[controllerName][action].
EmptyObject == [o \in {} |-> o]

VARIABLES
    cachedResults,  \* the module-level object: controller name -> key -> value
    promises,       \* the promises returned by controller[action](apiOptions)
    calls,          \* history: what each call found, issued and returned, and
                    \* how far the fetches of its entry had got when it was made
    helpers,        \* the invocations of the get helper: the promise each waits
                    \* for, data.error, and what the promise it returned became
    users,          \* models.User: name -> status and role
    requests        \* the requests that pass through parser and signIn

vars == <<cachedResults, promises, calls, helpers, users, requests>>

----------------------------------------------------------------------------
\* Pieces of returnCacheAndStartRefetch

\* The property path under which an entry is looked up and stored.
entryPath(controllerName, action, stringApiOptions) ==
    <<controllerName, stringApiOptions>>

needsRefetchAlways(cache) == TRUE

\* The guard of the refresh: `if (!cache.isFetching)`.
needsRefetch(cache) == ~cache.isFetching

returnedOnHitFresh(cache, promise) ==
    IF promise # 0 THEN promise ELSE cache.promise

\* What a call that finds an entry returns: `return cache.promise`.
\* promise is the refresh it started, 0 when it started none.
returnedOnHit(cache, promise) == cache.promise

returnedOnMissNone(promise) == 0

\* What a call that finds no entry returns: `return promise`.
returnedOnMiss(promise) == promise

newEntryIdle(promise) == [isFetching |-> FALSE, promise |-> promise]

\* The entry stored for a key seen for the first time.
newEntry(promise) == [isFetching |-> TRUE, promise |-> promise]

refreshStartedUnmarked(cache, promise) == cache

refreshStartedStoresNew(cache, promise) ==
    [cache EXCEPT !.isFetching = TRUE, !.promise = promise]

\* `cache.isFetching = true` before the refresh `promise` is started; the
\* stored promise is not touched.
refreshStarted(cache, promise) == [cache EXCEPT !.isFetching = TRUE]

refreshFulfilledKeepsOld(cache, promise) == [cache EXCEPT !.isFetching = FALSE]

\* The then-callback of a refresh.
refreshFulfilled(cache, promise) ==
    [cache EXCEPT !.promise = promise, !.isFetching = FALSE]

\* The then-callback of the first fetch of a key.
coldFulfilled(cache) == [cache EXCEPT !.isFetching = FALSE]

rejectedStoresPromise(cache, promise) ==
    [cache EXCEPT !.promise = promise, !.isFetching = FALSE]

\* A rejected fetch: `promise.then(f)` has no rejection handler, so nothing
\* runs and the entry is left as it is.
rejected(cache, promise) == cache

----------------------------------------------------------------------------
\* JavaScript objects as functions with a growing domain

Has(obj, key) == key \in DOMAIN obj

Put(obj, key, value) == [k \in DOMAIN obj \cup {key} |->
                            IF k = key THEN value ELSE obj[k]]

\* cachedResults after lines 189-194 of a call.
withSlots(controllerName, action) ==
    LET c1 == IF Has(cachedResults, controllerName) THEN cachedResults
              ELSE Put(cachedResults, controllerName, EmptyObject)
    IN  IF Has(c1[controllerName], action) THEN c1
        ELSE Put(c1, controllerName, Put(c1[controllerName], action, EmptyObject))

\* The promise controller[action](apiOptions) returns: pending, with the
\* then-callback the caller registers on it.
fetch(controllerName, action, apiOptions, callback) ==
    [controllerName |-> controllerName, action |-> action,
     apiOptions |-> apiOptions, state |-> "pending",
     callback |-> callback, dispatched |-> FALSE]

\* The names tokens are issued for, and those config trap:admins lists.
Names == {"alice", "bob"}
ADMINS == {"alice"}

\* A user that models.User does not hold.
NoUser == [status |-> "absent", role |-> "none"]

Init ==
    /\ cachedResults = EmptyObject
    /\ promises = <<>>
    /\ calls = <<>>
    /\ helpers = <<>>
    /\ users = [n \in Names |-> NoUser]
    /\ requests = <<>>

returnCacheAndStartRefetch(controllerName, action, apiOptions) ==
    /\ Len(calls) < MaxCalls
    /\ LET slots == withSlots(controllerName, action)
           stringApiOptions == JSONstringify(apiOptions)
           path == entryPath(controllerName, action, stringApiOptions)
           hit == Has(slots[path[1]], path[2])
           cache == slots[path[1]][path[2]]
           promise == Len(promises) + 1
           refetch == hit /\ needsRefetch(cache)
           returned == IF hit
                       THEN returnedOnHit(cache, IF refetch THEN promise ELSE 0)
                       ELSE returnedOnMiss(promise)
           \* what the call observed, did and returned, for the history;
           \* mine: the fetches issued so far for the same controller and
           \* serialized options, whose progress the call records
           mine == {q \in DOMAIN promises :
                       /\ promises[q].controllerName = controllerName
                       /\ JSONstringify(promises[q].apiOptions) = stringApiOptions}
           seen == [controllerName |-> controllerName, action |-> action,
                    stringApiOptions |-> stringApiOptions,
                    found |-> IF ~hit THEN "none"
                              ELSE IF cache.isFetching THEN "fetching" ELSE "idle",
                    stored |-> IF hit THEN cache.promise ELSE 0,
                    issued |-> IF ~hit \/ refetch THEN promise ELSE 0,
                    returned |-> returned,
                    count |-> Len(promises),
                    states |-> [q \in mine |-> promises[q].state],
                    ran |-> {q \in mine : promises[q].dispatched}]
       IN  IF hit
           THEN /\ IF refetch
                   THEN /\ cachedResults' = Put(slots, path[1],
                               Put(slots[path[1]], path[2],
                                   refreshStarted(cache, promise)))
                        /\ promises' = Append(promises,
                               fetch(controllerName, action, apiOptions, "refresh"))
                   ELSE /\ cachedResults' = slots
                        /\ promises' = promises
                /\ calls' = Append(calls, seen)
           ELSE /\ cachedResults' = Put(slots, path[1],
                       Put(slots[path[1]], path[2], newEntry(promise)))
                /\ promises' = Append(promises,
                       fetch(controllerName, action, apiOptions, "cold"))
                /\ calls' = Append(calls, seen)

\* The API settles a pending fetch, with a result or with an error.
Settle(p, outcome) ==
    /\ p \in DOMAIN promises
    /\ promises[p].state = "pending"
    /\ promises' = [promises EXCEPT ![p].state = outcome]
    /\ UNCHANGED <<cachedResults, calls, helpers, users, requests>>

\* The entry a then-callback of promise p works on.
pathOf(p) == entryPath(promises[p].controllerName, promises[p].action,
                       JSONstringify(promises[p].apiOptions))

\* The promise library runs the callbacks registered on a settled promise.
Dispatch(p) ==
    /\ p \in DOMAIN promises
    /\ promises[p].state # "pending"
    /\ ~promises[p].dispatched
    /\ promises' = [promises EXCEPT ![p].dispatched = TRUE]
    /\ LET path == pathOf(p)
           cache == cachedResults[path[1]][path[2]]
           after == IF promises[p].state = "rejected" THEN rejected(cache, p)
                    ELSE IF promises[p].callback = "refresh"
                         THEN refreshFulfilled(cache, p)
                         ELSE coldFulfilled(cache)
       IN  cachedResults' = Put(cachedResults, path[1],
                                Put(cachedResults[path[1]], path[2], after))
    /\ UNCHANGED <<calls, helpers, users, requests>>

----------------------------------------------------------------------------
\* The get helper

\* Messages: i18n.t(key) and err.message, as pairs <<text, promise>>.
NoError == <<"", 0>>
i18n(key) == <<key, 0>>

\* The error a rejected fetch is rejected with.
errorOf(p) == [message |-> <<"fetch failed", p>>]

\* What the promise returned by the helper resolves to: undefined, or the
\* rendering of a block (options.fn with the result of promise `of`, or
\* options.inverse) with the data frame, of which data.error is kept.
Undefined == [block |-> "none", of |-> 0, error |-> NoError]
fn(result, dataError) == [block |-> "fn", of |-> result, error |-> dataError]
inverse(dataError) == [block |-> "inverse", of |-> 0, error |-> dataError]

\* The state of an invocation after lines 111-121.
invoked(resource, hasFn) ==
    [resource |-> resource, hasFn |-> hasFn, promise |-> 0,
     status |-> "waiting", value |-> Undefined, dataError |-> NoError,
     fnCalled |-> FALSE]

withoutBlockRendersInverse(helper) ==
    [helper EXCEPT !.status = "resolved",
                   !.dataError = i18n("warnings.helpers.mustBeCalledAsBlock"),
                   !.value = inverse(i18n("warnings.helpers.mustBeCalledAsBlock"))]

\* Lines 123-127: not called as a block.
withoutBlock(helper) ==
    [helper EXCEPT !.status = "resolved",
                   !.dataError = i18n("warnings.helpers.mustBeCalledAsBlock"),
                   !.value = Undefined]

\* Lines 129-133: unknown resource.
invalidResource(helper) ==
    [helper EXCEPT !.status = "resolved",
                   !.dataError = i18n("warnings.helpers.get.invalidResource"),
                   !.value = inverse(i18n("warnings.helpers.get.invalidResource"))]

\* Lines 143-161: the success callback renders the main block.
success(helper, result) ==
    [helper EXCEPT !.status = "resolved", !.fnCalled = TRUE,
                   !.value = fn(result, helper.dataError)]

errorRethrown(helper, err) ==
    [helper EXCEPT !.status = "rejected", !.dataError = err.message]

\* Lines 162-166: the catch callback renders the inverse block.
error(helper, err) ==
    [helper EXCEPT !.status = "resolved", !.dataError = err.message,
                   !.value = inverse(err.message)]

\* The helper, lines 110-143.  (The options have no filter attribute, so
\* parseOptions leaves them alone; rendering a block does not throw.)
get(resource, hasFn, apiOptions) ==
    LET helper == invoked(resource, hasFn)
    IN  /\ UNCHANGED <<users, requests>>
        /\ IF ~hasFn
           THEN /\ helpers' = Append(helpers, withoutBlock(helper))
                /\ UNCHANGED <<cachedResults, promises, calls>>
           ELSE IF resource \notin DOMAIN RESOURCES
           THEN /\ helpers' = Append(helpers, invalidResource(helper))
                /\ UNCHANGED <<cachedResults, promises, calls>>
           ELSE LET controllerName == RESOURCES[resource].alias
                    action == IF isBrowse(apiOptions) THEN "browse" ELSE "read"
                IN  /\ returnCacheAndStartRefetch(controllerName, action, apiOptions)
                    /\ helpers' = Append(helpers,
                           [helper EXCEPT !.promise = calls'[Len(calls')].returned])

\* The callbacks the helper chained on the promise it got from the cache
\* run once that promise has settled (lines 143-166; the finally callback
\* only logs).
settled(h) ==
    /\ h \in DOMAIN helpers
    /\ helpers[h].status = "waiting"
    /\ helpers[h].promise \in DOMAIN promises
    /\ promises[helpers[h].promise].state # "pending"
    /\ helpers' = [helpers EXCEPT ![h] =
           IF promises[helpers[h].promise].state = "fulfilled"
           THEN success(helpers[h], helpers[h].promise)
           ELSE error(helpers[h], errorOf(helpers[h].promise))]
    /\ UNCHANGED <<cachedResults, promises, calls, users, requests>>

\* A block call on a known resource: the calls that reach the cache.
Call == \E resource \in DOMAIN RESOURCES, o \in ApiOptions : get(resource, TRUE, o)

\* Any call of the helper.
Helper ==
    /\ Len(helpers) < MaxHelpers
    /\ \E resource \in ResourceNames, hasFn \in BOOLEAN, o \in ApiOptions :
          get(resource, hasFn, o)

Render == \E h \in DOMAIN helpers : settled(h)

Fulfil == \E p \in DOMAIN promises : Settle(p, "fulfilled")

Reject == \E p \in DOMAIN promises : Settle(p, "rejected")

RunCallbacks == \E p \in DOMAIN promises : Dispatch(p)

Next == Call \/ Fulfil \/ Reject \/ RunCallbacks

\* The cache under block calls on known resources.  The callbacks of the
\* helper do not touch the cache and are left to HelperSpec.
Spec == Init /\ [][Next]_vars

----------------------------------------------------------------------------
\* The SSO adapter (parser and signIn)

\* Number of requests in one behaviour of SsoSpec.
MaxRequests == 1

\* The traP_token cookie: missing, or a token for a name that carries a
\* valid signature or does not.
NoToken == [name |-> "", signed |-> FALSE]
Tokens == {NoToken} \cup [name : Names, signed : BOOLEAN]

\* What a client can put in the body as trap_id: nothing, or an object
\* with any of the attributes err and user.
ClientTrapIds == [err : {"undefined", "forged"}, user : {"undefined"} \cup Names]
ClientBodies == {EmptyObject} \cup {Put(EmptyObject, "trap_id", t) : t \in ClientTrapIds}

\* What models.User can hold for a name.
UserRows == {NoUser} \cup [status : {"active", "locked", "inactive"},
                           role : {"Author", "Administrator"}]

\* The outcome of signIn: nothing yet, a returned value or a thrown message.
NotCalled == [threw |-> "", returned |-> "not called"]

\* jwt.verify: the name in the token, or the error thrown.
verify(rawToken) ==
    IF rawToken.signed THEN [id |-> rawToken.name, threw |-> ""]
    ELSE [id |-> "", threw |-> "JsonWebTokenError: invalid signature"]

\* models.User.add / models.User.edit with the role found for the name:
\* a new user is active, an existing one keeps its status.
modified(user, name) ==
    [status |-> IF user = NoUser THEN "active" ELSE user.status,
     role |-> IF name \in ADMINS THEN "Administrator" ELSE "Author"]

\* What the try block throws, "" if it completes.
thrown(rawToken, modifiedUser) ==
    IF rawToken = NoToken THEN "Error: No token"
    ELSE IF verify(rawToken).threw # "" THEN verify(rawToken).threw
    ELSE IF modifiedUser.status = "locked"
         THEN "Error: errors.models.user.accountLocked"
    ELSE IF modifiedUser.status = "inactive"
         THEN "Error: errors.models.user.accountSuspended"
    ELSE ""

\* The message stored: `traP ID ${err}`.
trapError(err) ==
    CASE err = "Error: No token" -> "traP ID Error: No token"
      [] err = "JsonWebTokenError: invalid signature"
            -> "traP ID JsonWebTokenError: invalid signature"
      [] err = "Error: errors.models.user.accountLocked"
            -> "traP ID Error: errors.models.user.accountLocked"
      [] err = "Error: errors.models.user.accountSuspended"
            -> "traP ID Error: errors.models.user.accountSuspended"

caughtKeepsClientValue(body, err) ==
    IF Has(body, "trap_id") THEN body
    ELSE Put(body, "trap_id", [err |-> trapError(err), user |-> "undefined"])

\* The catch block: req.body.trap_id = {err: `traP ID ${err}`}.
caught(body, err) ==
    Put(body, "trap_id", [err |-> trapError(err), user |-> "undefined"])

\* A request arrives with its cookie and its body.
Arrive(rawToken, body) ==
    /\ Len(requests) < MaxRequests
    /\ requests' = Append(requests,
           [cookies |-> [traP_token |-> rawToken], body |-> body,
            sent |-> body, user |-> "undefined", pc |-> "parser",
            nextCalled |-> FALSE, signIn |-> NotCalled])
    /\ UNCHANGED <<cachedResults, promises, calls, helpers, users>>

\* parser(req, res, next), lines 168-219, for request r.  (Its awaits do
\* not let another request change what it has read of this request.)
parser(r) ==
    /\ r \in DOMAIN requests
    /\ requests[r].pc = "parser"
    /\ LET req == requests[r]
           rawToken == req.cookies.traP_token
           verified == rawToken # NoToken /\ verify(rawToken).threw = ""
           name == verify(rawToken).id
           modifiedUser == IF verified THEN modified(users[name], name) ELSE NoUser
           err == thrown(rawToken, modifiedUser)
       IN  /\ users' = IF verified THEN [users EXCEPT ![name] = modifiedUser]
                       ELSE users
           /\ requests' = [requests EXCEPT ![r] =
                  IF err = ""
                  THEN [req EXCEPT !.user = name, !.pc = "signIn",
                                   !.nextCalled = TRUE]
                  ELSE [req EXCEPT !.body = caught(req.body, err),
                                   !.pc = "signIn", !.nextCalled = TRUE]]
    /\ UNCHANGED <<cachedResults, promises, calls, helpers>>

\* signIn(body), lines 221-226, called with the body of request r.
signIn(r) ==
    /\ r \in DOMAIN requests
    /\ requests[r].pc = "signIn"
    /\ LET body == requests[r].body
           result ==
               IF ~Has(body, "trap_id")
               THEN [threw |-> "TypeError", returned |-> "nothing"]
               ELSE IF body["trap_id"].err # "undefined"
               THEN [threw |-> body["trap_id"].err, returned |-> "nothing"]
               ELSE [threw |-> "", returned |-> body["trap_id"].user]
       IN  requests' = [requests EXCEPT ![r].signIn = result, ![r].pc = "done"]
    /\ UNCHANGED <<cachedResults, promises, calls, helpers, users>>

Request == \E rawToken \in Tokens, body \in ClientBodies : Arrive(rawToken, body)

Parse == \E r \in DOMAIN requests : parser(r)

SignIn == \E r \in DOMAIN requests : signIn(r)

\* The adapter starts with any users in models.User.
SsoInit ==
    /\ cachedResults = EmptyObject
    /\ promises = <<>>
    /\ calls = <<>>
    /\ helpers = <<>>
    /\ users \in [Names -> UserRows]
    /\ requests = <<>>

SsoNext == Request \/ Parse \/ SignIn

SsoSpec == SsoInit /\ [][SsoNext]_vars

HelperNext == Helper \/ Fulfil \/ Reject \/ RunCallbacks \/ Render

\* The helper with all its ways of being called, and its callbacks.
HelperSpec == Init /\ [][HelperNext]_vars

----------------------------------------------------------------------------
\* Vocabulary of the properties

\* The fetches issued for a controller name and serialized options.
fetchesOf(c, s) ==
    {p \in DOMAIN promises : /\ promises[p].controllerName = c
                             /\ JSONstringify(promises[p].apiOptions) = s}

\* The fetches of (c, s) that have not settled.
InFlight(c, s) == {p \in fetchesOf(c, s) : promises[p].state = "pending"}

\* Calls i and j name the same controller and the same serialized options.
SameEntry(i, j) == /\ calls[i].controllerName = calls[j].controllerName
                   /\ calls[i].stringApiOptions = calls[j].stringApiOptions

\* Promise p was issued for the controller and serialized options of call i.
FetchOfCall(p, i) == /\ promises[p].controllerName = calls[i].controllerName
                     /\ JSONstringify(promises[p].apiOptions) =
                            calls[i].stringApiOptions

\* Call i issued a fetch: a new promise, the next one, for its own arguments.
IssuedOne(i) == /\ calls[i].issued = calls[i].count + 1
                /\ calls[i].issued \in DOMAIN promises
                /\ FetchOfCall(calls[i].issued, i)
                /\ promises[calls[i].issued].action = calls[i].action
                /\ \A j \in DOMAIN calls : calls[j].issued = calls[i].issued => j = i

\* C1: for every controller name and serialized options (hence for every
\* key) at most one fetch is in flight, and a call that finds the entry
\* with isFetching true issues no fetch.
C1_OneFetchInFlight ==
    /\ \A c \in ControllerNames, s \in OptionStrings :
           Cardinality(InFlight(c, s)) <= 1
    /\ \A i \in DOMAIN calls : calls[i].found = "fetching" => calls[i].issued = 0

\* A call found isFetching true while a refresh was in flight, and issued none.
C1_Witness ==
    \E i \in DOMAIN calls :
        /\ calls[i].found = "fetching"
        /\ \E q \in DOMAIN calls[i].states :
               /\ calls[i].states[q] = "pending"
               /\ promises[q].callback = "refresh"
               /\ FetchOfCall(q, i)

\* C2: calls for a key that had no entry, all made before the key's fetch
\* settles: the first issues one fetch, the others none, and every one of
\* them returns the promise of that fetch.
C2_ConcurrentColdCalls ==
    \A i \in DOMAIN calls : calls[i].found = "none" =>
        /\ IssuedOne(i)
        /\ calls[i].returned = calls[i].issued
        /\ \A j \in DOMAIN calls :
               (j > i /\ SameEntry(i, j)
                      /\ calls[j].states[calls[i].issued] = "pending")
               => (calls[j].issued = 0 /\ calls[j].returned = calls[i].issued)

\* Three calls shared the first fetch of a key, which has since fulfilled.
C2_Witness ==
    \E i, j, k \in DOMAIN calls :
        /\ i < j /\ j < k /\ calls[i].found = "none"
        /\ SameEntry(i, j) /\ SameEntry(i, k)
        /\ calls[k].states[calls[i].issued] = "pending"
        /\ calls[k].returned = calls[i].issued
        /\ promises[calls[i].issued].state = "fulfilled"

\* C3: a call that finds no entry issues exactly one fetch, creates the
\* entry and returns the promise of that fetch.
C3_ColdCall ==
    \A i \in DOMAIN calls : calls[i].found = "none" =>
        /\ calls[i].returned = calls[i].issued
        /\ IssuedOne(i)
        /\ promises[calls[i].issued].callback = "cold"
        /\ Has(cachedResults, calls[i].controllerName)
        /\ Has(cachedResults[calls[i].controllerName], calls[i].stringApiOptions)

\* A cold call whose fetch has settled with an error.
C3_Witness ==
    \E i \in DOMAIN calls :
        /\ calls[i].found = "none"
        /\ calls[i].returned \in DOMAIN promises
        /\ promises[calls[i].returned].state = "rejected"

\* C4: a call that finds an entry with isFetching false issues exactly one
\* fetch and returns the stored promise, which is fulfilled and is not the
\* promise of the fetch the call started.
C4_StaleWhileRevalidate ==
    \A i \in DOMAIN calls : calls[i].found = "idle" =>
        /\ calls[i].returned = calls[i].stored
        /\ calls[i].returned # calls[i].issued
        /\ IssuedOne(i)
        /\ calls[i].states[calls[i].returned] = "fulfilled"

\* A call returned the stored value and the refresh it started has fulfilled.
C4_Witness ==
    \E i \in DOMAIN calls :
        /\ calls[i].found = "idle"
        /\ calls[i].issued \in DOMAIN promises
        /\ promises[calls[i].issued].state = "fulfilled"
        /\ calls[i].returned = calls[i].stored

\* The greatest element of a non-empty set of promise numbers.
Latest(S) == CHOOSE q \in S : \A r \in S : r <= q

\* The refreshes of call i's entry that had settled when call i was made.
SettledRefreshes(i) ==
    {q \in DOMAIN calls[i].states : /\ FetchOfCall(q, i)
                                    /\ promises[q].callback = "refresh"
                                    /\ calls[i].states[q] # "pending"}

\* Those that had fulfilled and whose then-callback had run.
CompletedRefreshes(i) ==
    {q \in SettledRefreshes(i) : calls[i].states[q] = "fulfilled"
                                 /\ q \in calls[i].ran}

\* Those that had rejected, the rejection having been dispatched.
FailedRefreshes(i) ==
    {q \in SettledRefreshes(i) : calls[i].states[q] = "rejected"
                                 /\ q \in calls[i].ran}

\* C5 as stated: once a refresh of a key has settled, a call for the key
\* returns the promise of the latest settled refresh.
C5_AsStated ==
    \A i \in DOMAIN calls :
        SettledRefreshes(i) # {} => calls[i].returned = Latest(SettledRefreshes(i))

\* C5, amended: once a refresh has fulfilled and its then-callback has run,
\* a call returns the promise of the latest such refresh of the entry and
\* not the promise stored before it; a refresh that rejected is never returned.
C5_RefreshedValue ==
    \A i \in DOMAIN calls :
        /\ CompletedRefreshes(i) # {}
              => calls[i].returned = Latest(CompletedRefreshes(i))
        /\ calls[i].returned \notin FailedRefreshes(i)

\* A call made after a completed refresh returned the value of that refresh.
C5_Witness ==
    \E i \in DOMAIN calls :
        /\ CompletedRefreshes(i) # {}
        /\ calls[i].returned = Latest(CompletedRefreshes(i))
        /\ \E j \in DOMAIN calls : j < i /\ SameEntry(i, j)
                                     /\ calls[j].issued = calls[i].returned
                                     /\ calls[j].returned # calls[i].returned

\* The keys the helper can form: controller name, action, serialized options.
Keys == {<<RESOURCES[r].alias, IF isBrowse(o) THEN "browse" ELSE "read",
           JSONstringify(o)>> : r \in DOMAIN RESOURCES, o \in ApiOptions}

NoEntry == [isFetching |-> FALSE, promise |-> 0]

\* The entry a call for key k finds.
EntryFor(k) ==
    LET path == entryPath(k[1], k[2], k[3])
    IN  IF Has(cachedResults, path[1]) /\ Has(cachedResults[path[1]], path[2])
        THEN cachedResults[path[1]][path[2]] ELSE NoEntry

\* The key a step is for: that of the call made, or of the promise that
\* settled or whose callbacks ran.
ActingKey ==
    IF Len(calls') > Len(calls)
    THEN LET call == calls'[Len(calls')]
         IN  <<call.controllerName, call.action, call.stringApiOptions>>
    ELSE LET p == CHOOSE q \in DOMAIN promises : promises'[q] # promises[q]
         IN  <<promises[p].controllerName, promises[p].action,
               JSONstringify(promises[p].apiOptions)>>

\* C6: a call or a settlement for one key changes the entry (isFetching,
\* stored promise) of no other key.
C6_KeysIndependent ==
    [][\A k \in Keys : EntryFor(k)' # EntryFor(k) => k = ActingKey]_vars

\* C7: a call made after the latest fetch of its key has failed issues a
\* new fetch.
C7_FetchAgainAfterFailure ==
    \A i \in DOMAIN calls :
        (\E q \in DOMAIN calls[i].states :
            /\ FetchOfCall(q, i)
            /\ calls[i].states[q] = "rejected" /\ q \in calls[i].ran
            /\ \A r \in DOMAIN calls[i].states : FetchOfCall(r, i) => r <= q)
        => calls[i].issued # 0

\* A returned promise that has rejected is the first fetch of its entry.
OnlyColdRejects ==
    \A i \in DOMAIN calls :
        LET p == calls[i].returned
        IN  (p \in DOMAIN promises /\ promises[p].state = "rejected")
            => /\ promises[p].callback = "cold"
               /\ FetchOfCall(p, i)
               /\ \A q \in DOMAIN promises : FetchOfCall(q, i) => p <= q

\* When the rejection of a refresh is dispatched the stored promise of its
\* entry stays what it was, a fulfilled promise.
FailedRefreshKeepsStored ==
    \A p \in DOMAIN promises :
        (/\ promises[p].callback = "refresh" /\ promises[p].state = "rejected"
         /\ ~promises[p].dispatched /\ promises'[p].dispatched)
        => LET c == promises[p].controllerName
               s == JSONstringify(promises[p].apiOptions)
           IN  /\ cachedResults'[c][s].promise = cachedResults[c][s].promise
               /\ cachedResults[c][s].promise # p
               /\ promises[cachedResults[c][s].promise].state = "fulfilled"

\* C8: a promise the cache returns rejects only if it is the cold fetch of
\* its entry; a failed refresh is returned to no caller and leaves the
\* stored promise the previously fulfilled one.
C8_OnlyColdFailureSurfaces ==
    []OnlyColdRejects /\ [][FailedRefreshKeepsStored]_vars

\* After a refresh failed, a call returned the old, fulfilled promise.
C8_Witness ==
    \E i \in DOMAIN calls :
        /\ FailedRefreshes(i) # {}
        /\ calls[i].states[calls[i].returned] = "fulfilled"
        /\ calls[i].returned < Latest(FailedRefreshes(i))

\* C9: isFetching is true exactly while a fetch of the entry is in flight,
\* that is until the fetch has settled and its settlement been dispatched.
C9_FlagTracksFetch ==
    \A c \in ControllerNames, s \in OptionStrings :
        (Has(cachedResults, c) /\ Has(cachedResults[c], s))
        => (cachedResults[c][s].isFetching
            <=> \E p \in fetchesOf(c, s) : ~promises[p].dispatched)

\* C10: once a fetch of the entry has fulfilled, a call returns a promise
\* that is fulfilled when the call is made.
C10_NeverWaits ==
    \A i \in DOMAIN calls :
        (\E q \in DOMAIN calls[i].states :
            FetchOfCall(q, i) /\ calls[i].states[q] = "fulfilled")
        => /\ calls[i].returned \in DOMAIN calls[i].states
           /\ calls[i].states[calls[i].returned] = "fulfilled"

\* A call made while a refresh was in flight got a fulfilled promise, and so
\* did the call that started the refresh.
C10_Witness ==
    \E i, j \in DOMAIN calls :
        /\ j < i /\ SameEntry(i, j)
        /\ calls[j].found = "idle" /\ calls[i].found = "fetching"
        /\ calls[i].states[calls[j].issued] = "pending"
        /\ calls[i].states[calls[i].returned] = "fulfilled"
        /\ calls[j].states[calls[j].returned] = "fulfilled"

\* The first fetch issued for the entry of call i, 0 if there was none yet.
ColdFetch(i) ==
    IF DOMAIN calls[i].states = {} THEN 0
    ELSE CHOOSE q \in DOMAIN calls[i].states :
            \A r \in DOMAIN calls[i].states : q <= r

\* C11 as stated: a call that finds isFetching true returns the promise of
\* a fetch that had already fulfilled.
C11_AsStated ==
    \A i \in DOMAIN calls :
        calls[i].found = "fetching"
        => /\ calls[i].returned \in DOMAIN calls[i].states
           /\ calls[i].states[calls[i].returned] = "fulfilled"

\* C11, amended: a call that finds isFetching true returns the stored
\* promise, which is never that of a refresh in flight; once the first fetch
\* of the entry has fulfilled it is a promise already fulfilled, and until
\* then (first fetch in flight or failed) it is the promise of that first fetch.
C11_StaleWhileFetching ==
    \A i \in DOMAIN calls :
        calls[i].found = "fetching"
        => /\ calls[i].returned = calls[i].stored
           /\ calls[i].returned \in DOMAIN calls[i].states
           /\ IF calls[i].states[ColdFetch(i)] = "fulfilled"
              THEN calls[i].states[calls[i].returned] = "fulfilled"
              ELSE calls[i].returned = ColdFetch(i)
           /\ \A q \in DOMAIN calls[i].states :
                 (promises[q].callback = "refresh" /\ q \notin calls[i].ran)
                 => calls[i].returned # q

\* A call got stale, fulfilled data while a refresh was in flight.
C11_Witness ==
    \E i \in DOMAIN calls :
        /\ calls[i].found = "fetching"
        /\ calls[i].states[ColdFetch(i)] = "fulfilled"
        /\ \E q \in DOMAIN calls[i].states :
              /\ promises[q].callback = "refresh"
              /\ calls[i].states[q] = "pending"
              /\ calls[i].returned < q
              /\ calls[i].states[calls[i].returned] = "fulfilled"

\* A call made while a fetch of its entry is pending finds the entry
\* fetching, issues nothing and returns the stored promise; a call that
\* finds no entry or an idle one issues a fetch whatever hangs elsewhere.
HungBlocksOnlyItsEntry ==
    \A i \in DOMAIN calls :
        /\ (\E q \in DOMAIN calls[i].states : calls[i].states[q] = "pending")
              => /\ calls[i].found = "fetching"
                 /\ calls[i].issued = 0
                 /\ calls[i].returned = calls[i].stored
        /\ calls[i].found # "fetching" => IssuedOne(i)

\* While a fetch stays pending its entry stays as it is, isFetching true.
HungKeepsEntry ==
    \A p \in DOMAIN promises :
        (promises[p].state = "pending" /\ promises'[p].state = "pending")
        => LET c == promises[p].controllerName
               s == JSONstringify(promises[p].apiOptions)
           IN  /\ cachedResults[c][s].isFetching
               /\ cachedResults'[c][s] = cachedResults[c][s]

StoredChangesOnlyOnRefresh ==
    \A c \in ControllerNames, s \in OptionStrings :
        (/\ Has(cachedResults, c) /\ Has(cachedResults[c], s)
         /\ cachedResults'[c][s].promise # cachedResults[c][s].promise)
        => /\ calls' = calls
           /\ \E p \in fetchesOf(c, s) :
                 /\ promises[p].callback = "refresh"
                 /\ promises[p].state = "fulfilled"
                 /\ ~promises[p].dispatched /\ promises'[p].dispatched
                 /\ cachedResults'[c][s].promise = p

\* The call that starts a refresh and the calls made until the refresh has
\* been dealt with all return the same promise.
SameDuringRefresh ==
    \A i, j \in DOMAIN calls :
        (/\ i < j /\ SameEntry(i, j)
         /\ \E q \in DOMAIN calls[j].states :
               /\ promises[q].callback = "refresh"
               /\ q \notin calls[j].ran
               /\ \/ calls[i].issued = q
                  \/ q \in DOMAIN calls[i].states)
        => calls[i].returned = calls[j].returned

\* C13: no call replaces the stored promise of an existing entry; it changes
\* only when a refresh of the entry has fulfilled, to the promise of that
\* refresh, so the calls made during one refresh return the same promise.
C13_StoredPromiseFrame ==
    []SameDuringRefresh /\ [][StoredChangesOnlyOnRefresh]_vars

\* A refresh replaced the stored promise, after two calls made during that
\* refresh had returned the same earlier promise.
C13_Witness ==
    \E i, j \in DOMAIN calls :
        /\ i < j /\ SameEntry(i, j)
        /\ calls[i].found = "idle" /\ calls[j].found = "fetching"
        /\ calls[i].returned = calls[j].returned
        /\ calls[j].states[calls[i].issued] = "pending"
        /\ cachedResults[calls[i].controllerName][calls[i].stringApiOptions].promise
              = calls[i].issued

\* C14: of two calls for the same entry the later never returns the promise
\* of a fetch issued before the fetch whose promise the earlier returned.
C14_Monotonic ==
    \A i, j \in DOMAIN calls :
        (i < j /\ SameEntry(i, j)) => calls[i].returned <= calls[j].returned

\* Three calls for one entry returned the first fetch, the first fetch
\* again, then the refresh.
C14_Witness ==
    \E i, j, k \in DOMAIN calls :
        /\ i < j /\ j < k /\ SameEntry(i, j) /\ SameEntry(j, k)
        /\ calls[i].returned = calls[j].returned
        /\ calls[j].returned < calls[k].returned
        /\ calls[k].returned = calls[j].issued

\* C15: when the promise the helper got from the cache rejects with err,
\* the promise the helper returned does not reject: it resolves to the
\* rendering of the inverse block, with data.error set to err.message, and
\* the main block is not called.
C15_FailureIsRendered ==
    \A h \in DOMAIN helpers :
        /\ helpers[h].status # "rejected"
        /\ (/\ helpers[h].promise \in DOMAIN promises
            /\ promises[helpers[h].promise].state = "rejected"
            /\ helpers[h].status # "waiting")
           => /\ helpers[h].status = "resolved"
              /\ helpers[h].dataError = errorOf(helpers[h].promise).message
              /\ helpers[h].value = inverse(errorOf(helpers[h].promise).message)
              /\ ~helpers[h].fnCalled

\* Two invocations shared a first fetch that failed, and both rendered the
\* inverse block.
C15_Witness ==
    \E g, h \in DOMAIN helpers :
        /\ g < h
        /\ helpers[g].promise = helpers[h].promise
        /\ helpers[g].promise \in DOMAIN promises
        /\ promises[helpers[g].promise].state = "rejected"
        /\ helpers[g].value.block = "inverse"
        /\ helpers[h].value.block = "inverse"

\* The invocation a step adds.
Invoked == helpers'[Len(helpers')]

Verified(r) ==
    /\ requests[r].pc # "parser"
    /\ requests[r].cookies.traP_token # NoToken
    /\ requests[r].cookies.traP_token.signed
    /\ users[requests[r].cookies.traP_token.name].status = "active"

\* Request r has been through parser, which found no valid token or a user
\* that is locked or inactive.
Refused(r) == requests[r].pc # "parser" /\ ~Verified(r)

\* C17: for a verified request, signIn with the body of the request
\* returns the user parser stored in req.user, whatever trap_id the client
\* sent.
C17_SignInReturnsVerifiedUser ==
    \A r \in DOMAIN requests :
        (Verified(r) /\ requests[r].pc = "done")
        => /\ requests[r].user = requests[r].cookies.traP_token.name
           /\ requests[r].signIn.threw = ""
           /\ requests[r].signIn.returned = requests[r].user

\* C18: for a refused request, parser leaves req.user unset, replaces
\* trap_id by the error it caught and calls next(); signIn with that body
\* then throws that error.
C18_RefusedRequestFails ==
    \A r \in DOMAIN requests :
        Refused(r)
        => LET rawToken == requests[r].cookies.traP_token
               err == thrown(rawToken,
                             IF rawToken.signed THEN users[rawToken.name] ELSE NoUser)
           IN  /\ requests[r].user = "undefined"
               /\ requests[r].nextCalled
               /\ err # ""
               /\ requests[r].body["trap_id"] =
                     [err |-> trapError(err), user |-> "undefined"]
               /\ requests[r].pc = "done"
                    => requests[r].signIn =
                          [threw |-> trapError(err), returned |-> "nothing"]

\* A request of a locked user whose body named another user as trap_id.user
\* was refused by signIn.
C18_Witness ==
    \E r \in DOMAIN requests :
        /\ requests[r].pc = "done"
        /\ requests[r].cookies.traP_token.signed
        /\ users[requests[r].cookies.traP_token.name].status = "locked"
        /\ Has(requests[r].sent, "trap_id")
        /\ requests[r].sent["trap_id"].user \in Names
        /\ requests[r].sent["trap_id"].err = "undefined"
        /\ requests[r].signIn.threw =
              "traP ID Error: errors.models.user.accountLocked"

====
